---------------------------- MODULE Spec2Model ----------------------------
(***************************************************************************)
(* State-machine model of the programs of ppatoria/algometix:             *)
(*   - the list-based OrderBook of static/code/orderbook.cpp              *)
(*     (std::map<Price, std::list<Order>> per side + orderMap),           *)
(*   - the multimap-based orderbook of                                     *)
(*     static/code/orderbook/orderbook_multimap.cpp,                       *)
(*   - LockFreeQueue and main of static/code/lockfree/queue.cpp,           *)
(*   - the lru cache of static/code/lru.cpp,                               *)
(*   - deferred_vector of static/code/deferred_vector.cpp.                 *)
(* The variable prog says which of the programs a behaviour is of.         *)
(***************************************************************************)
EXTENDS Integers, Sequences, FiniteSets, TLC

(***************************************************************************)
(* Bound of the model: order identifiers are 1 .. MaxOrderID.              *)
(***************************************************************************)
MaxOrderID == 2

(***************************************************************************)
(* enum class Side { Buy = 1, Sell = 2 }; any other value of the           *)
(* underlying type is a valid object of the enumeration that names no      *)
(* side (insert's default: branch exists for it).                          *)
(***************************************************************************)
Buy == 1
Sell == 2
Side == {Buy, Sell}
AnySide == Side \cup {0}

OrderIDs == 1 .. MaxOrderID
Prices == 1 .. 2
Quantities == 0 .. 2
Symbols == {"AAPL", "MSFT"}

(* struct Order *)
Order == [orderID : OrderIDs, price : Prices, quantity : Quantities,
          side : AnySide, symbol : Symbols]

(* The messages of the std::runtime_error each operation throws; "ok" is a *)
(* normal return.                                                          *)
OK == "ok"
ErrDuplicate == "Order already exists."
ErrInvalidSide == "Invalid order side."
ErrCancelNotFound == "Order does not exists in the OrderBook."
ErrModifyNotFound == "Order not found in the orderbook."
ErrMismatch == "Order to modify is different than the incoming order"
(* The process was ended inside the call (undefined behaviour caught). *)
Aborted == "aborted"

VARIABLES
  prog,          \* "list": orderbook.cpp, "multimap": orderbook_multimap.cpp,
                 \* "queue main": main of queue.cpp, "queue": LockFreeQueue
                 \* with a producer and a consumer thread, "lru": lru.cpp,
                 \* "deferred_vector": deferred_vector.cpp
  bids,          \* PriceLevel<std::greater<Price>>: price -> list of orders
  asks,          \* PriceLevel<std::less<Price>>:    price -> list of orders
  orderMap,      \* OrderID -> OrderLocation
  pc,            \* "idle" between calls; "outer"/"inner": position in match();
                 \* "loop": in the multimap match(); "incoming": in the
                 \* multimap match(order&); "aborted": process ended;
                 \* "raced": match() holds an iterator another thread made
                 \* dangle; "corrupted": match() went on over freed memory

  bidOrderIter,  \* match(): index of bidOrderIter in bestBidOrders (0: unused
                 \* outside the inner loop, dangling inside it)
  askOrderIter,  \* match(): index of askOrderIter in bestAskOrders (same)
  trades,        \* what the running/last call of match() has printed
  ret,           \* how the last call ended: OK or the message thrown
  ub,            \* the last call executed undefined behaviour
  entry,         \* the quantities resting on each side when the running/last
                 \* call of match() of the list book was entered
  main,          \* main() of orderbook.cpp: the calls it has made so far and
                 \* the arguments it chose (step 0 where main does not run)
  incoming       \* the order ord of the caller that the running/last call
                 \* of match(order&) of the multimap book works on

(* LockFreeQueue<T, Size> and its two callers. *)
VARIABLES
  Size,          \* the template argument
  buffer,        \* std::array<T, Size>: index -> item
  head,          \* std::atomic<size_t>
  tail,          \* std::atomic<size_t>
  producer,      \* the caller of enqueue: its position and its locals
  consumer,      \* the caller of dequeue: its position and its locals
  enqueued,      \* the items of the calls of enqueue that returned true
  dequeued,      \* the items of the calls of dequeue that returned true
  unread         \* the slots written by enqueue that dequeue has not read

queueVars == <<Size, buffer, head, tail, producer, consumer, enqueued,
               dequeued, unread>>

(* class lru *)
VARIABLES
  orders,        \* std::list<order>, front first
  cache,         \* std::unordered_map: id -> position of its node in orders
  capacity,      \* size_t capacity
  lastPut        \* the order passed to the last call of put

lruVars == <<orders, cache, capacity, lastPut>>

(* deferred_vector<T> and the threads that call it. *)
VARIABLES
  data,              \* std::vector<std::pair<bool, T>>
  deletionThreshold, \* size_t
  deletedCount,      \* size_t
  mutex,             \* std::shared_mutex: the thread that owns it, or 0
  thread             \* thread -> its position in the call it is making

deferredVars == <<data, deletionThreshold, deletedCount, mutex, thread>>

(* The state of the order books. *)
bookVars == <<bids, asks, orderMap, bidOrderIter, askOrderIter, trades,
              entry, main, incoming>>

(* The state of the programs other than the order books. *)
others == <<queueVars, lruVars, deferredVars>>

vars == <<prog, bids, asks, orderMap, pc, bidOrderIter, askOrderIter,
          trades, ret, ub, entry, main, incoming, others>>

(* The values the variables of a program keep in the behaviours of the     *)
(* other programs.                                                         *)
NoQueue ==
  /\ Size = 0
  /\ buffer = <<>>
  /\ head = 0
  /\ tail = 0
  /\ producer = <<>>
  /\ consumer = <<>>
  /\ enqueued = <<>>
  /\ dequeued = <<>>
  /\ unread = {}

NoLru ==
  /\ orders = <<>>
  /\ cache = <<>>
  /\ capacity = 0
  /\ lastPut = <<>>

NoDeferredVector ==
  /\ data = <<>>
  /\ deletionThreshold = 0
  /\ deletedCount = 0
  /\ mutex = 0
  /\ thread = <<>>

(***************************************************************************)
(* Containers.  A std::map<Price, Orders, Cmp> is a function from the      *)
(* prices that have a node to that node's list; a std::list<Order> is a    *)
(* sequence.  An iterator into the map is the pair (tree, key) of the node *)
(* it designates; an iterator into a list is the index of its node.  Both  *)
(* containers keep iterators to surviving nodes valid across insert and    *)
(* erase: EraseOrderIters/EraseLevelIters state what an erase does to the  *)
(* iterators other holders keep (later nodes of the list move up one       *)
(* index, iterators to the erased node dangle: pos = 0).                   *)
(***************************************************************************)
Max(S) == CHOOSE x \in S : \A y \in S : y <= x

Min(S) == CHOOSE x \in S : \A y \in S : x <= y

(* bids.begin()->first under std::greater<Price> *)
BestBid(b) == Max(DOMAIN b)

(* The last key of asks in the place of the first. *)
LastAsk(a) == Max(DOMAIN a)

(* asks.begin()->first under std::less<Price> *)
BestAsk(a) == Min(DOMAIN a)

(* priceLevels.try_emplace(price, Orders{}) *)
TryEmplace(levels, price) ==
  IF price \in DOMAIN levels THEN levels
  ELSE [p \in DOMAIN levels \cup {price} |->
          IF p = price THEN <<>> ELSE levels[p]]

(* std::map::erase(iterator) *)
EraseLevel(levels, price) == [p \in DOMAIN levels \ {price} |-> levels[p]]

(* std::list::erase(iterator) *)
EraseAt(list, i) ==
  [k \in 1 .. (Len(list) - 1) |-> IF k < i THEN list[k] ELSE list[k + 1]]

(* orderMap[id] = loc *)
MapPut(om, id, loc) ==
  [k \in DOMAIN om \cup {id} |-> IF k = id THEN loc ELSE om[k]]

(* An erase that leaves the entry in the map. *)
MapKeep(om, id) == om

(* orderMap.erase(id) *)
MapErase(om, id) == [k \in DOMAIN om \ {id} |-> om[k]]

(* What erasing list node pos of level (side, price) does to the stored    *)
(* iterators: std::list keeps every other iterator on its node.            *)
EraseOrderIters(om, side, price, pos) ==
  [k \in DOMAIN om |->
     IF om[k].side = side /\ om[k].price = price
     THEN IF om[k].pos > pos THEN [om[k] EXCEPT !.pos = @ - 1]
          ELSE IF om[k].pos = pos THEN [om[k] EXCEPT !.pos = 0]
          ELSE om[k]
     ELSE om[k]]

(* What erasing the map node (side, price) does to the stored iterators.   *)
EraseLevelIters(om, side, price) ==
  [k \in DOMAIN om |->
     IF om[k].side = side /\ om[k].price = price
     THEN [om[k] EXCEPT !.pos = 0] ELSE om[k]]

(***************************************************************************)
(* The list-based OrderBook as a value: [bids, asks, orderMap].            *)
(***************************************************************************)
Book == [bids |-> bids, asks |-> asks, orderMap |-> orderMap]

Levels(book, side) == IF side = Buy THEN book.bids ELSE book.asks

WithLevels(book, side, levels) ==
  IF side = Buy THEN [book EXCEPT !.bids = levels]
  ELSE [book EXCEPT !.asks = levels]

(* The stored location designates a live list node. *)
ValidLoc(book, loc) ==
  /\ loc.price \in DOMAIN Levels(book, loc.side)
  /\ loc.pos \in 1 .. Len(Levels(book, loc.side)[loc.price])

(* An insert without the duplicate test of lines 222-223. *)
InsertUnchecked(book, side, order) ==
  LET emplaced == TryEmplace(Levels(book, side), order.price)
      pushed == [emplaced EXCEPT ![order.price] = Append(@, order)]
      orderIter == [side |-> side, price |-> order.price,
                    pos |-> Len(pushed[order.price])]
  IN [book |-> [WithLevels(book, side, pushed) EXCEPT
                  !.orderMap = MapPut(@, order.orderID, orderIter)],
      ret |-> OK]

(* An insert that queues the order with push_front (the iterators of the   *)
(* other nodes of the list stay on their nodes).                           *)
InsertAtFront(book, side, order) ==
  IF order.orderID \in DOMAIN book.orderMap
  THEN [book |-> book, ret |-> ErrDuplicate]
  ELSE LET emplaced == TryEmplace(Levels(book, side), order.price)
           pushed == [emplaced EXCEPT ![order.price] = <<order>> \o @]
           shifted == [k \in DOMAIN book.orderMap |->
                         IF /\ book.orderMap[k].side = side
                            /\ book.orderMap[k].price = order.price
                            /\ book.orderMap[k].pos > 0
                         THEN [book.orderMap[k] EXCEPT !.pos = @ + 1]
                         ELSE book.orderMap[k]]
           orderIter == [side |-> side, price |-> order.price, pos |-> 1]
       IN [book |-> [WithLevels(book, side, pushed) EXCEPT
                       !.orderMap = MapPut(shifted, order.orderID,
                                           orderIter)],
           ret |-> OK]

(* template <typename T> void OrderBook::insert(T &priceLevels, order):    *)
(* side names the container passed (Buy: bids, Sell: asks).                *)
InsertInto(book, side, order) ==
  IF order.orderID \in DOMAIN book.orderMap
  THEN [book |-> book, ret |-> ErrDuplicate]
  ELSE LET emplaced == TryEmplace(Levels(book, side), order.price)
           pushed == [emplaced EXCEPT ![order.price] = Append(@, order)]
           orderIter == [side |-> side, price |-> order.price,
                         pos |-> Len(pushed[order.price])]
       IN [book |-> [WithLevels(book, side, pushed) EXCEPT
                       !.orderMap = MapPut(@, order.orderID, orderIter)],
           ret |-> OK]

(* void OrderBook::insert(const Order &order) *)
InsertOrder(book, order) ==
  IF order.side = Buy THEN InsertInto(book, Buy, order)
  ELSE IF order.side = Sell THEN InsertInto(book, Sell, order)
  ELSE [book |-> book, ret |-> ErrInvalidSide]

(* A tail of cancel that never removes the level. *)
CancelKeepsLevel(book, loc, argSide) ==
  {[book |-> book, ub |-> FALSE, abort |-> FALSE]}

(* The tail of cancel: remove the level whose list became empty from the   *)
(* map the ARGUMENT's side names.  bids.erase(it) with it an iterator of   *)
(* asks (or the reverse) is undefined behaviour: the red-black tree code   *)
(* unlinks the node from the tree that holds it (the size and header of    *)
(* the two maps, which the model does not keep, are then wrong: ub), or a  *)
(* checked build aborts.                                                   *)
CancelLevelOutcomes(book, loc, argSide) ==
  LET erased == [WithLevels(book, loc.side,
                            EraseLevel(Levels(book, loc.side), loc.price))
                   EXCEPT !.orderMap =
                     EraseLevelIters(@, loc.side, loc.price)]
  IN IF Levels(book, loc.side)[loc.price] # <<>>
     THEN {[book |-> book, ub |-> FALSE, abort |-> FALSE]}
     ELSE IF argSide = loc.side
     THEN {[book |-> erased, ub |-> FALSE, abort |-> FALSE]}
     ELSE IF argSide \in Side
     THEN {[book |-> erased, ub |-> TRUE, abort |-> FALSE],
           [book |-> book, ub |-> TRUE, abort |-> TRUE]}
     ELSE {[book |-> book, ub |-> FALSE, abort |-> FALSE]}

(* void OrderBook::cancel(const Order &order): the set of outcomes.  An    *)
(* abort ends the process before orderMap.erase.                           *)
CancelOrder(book, order) ==
  IF order.orderID \notin DOMAIN book.orderMap
  THEN {[book |-> book, ret |-> ErrCancelNotFound, ub |-> FALSE]}
  ELSE LET loc == book.orderMap[order.orderID]
       IN IF ~ValidLoc(book, loc)
          THEN \* erase through a dangling iterator: undefined behaviour
               {[book |-> [book EXCEPT
                             !.orderMap = MapErase(@, order.orderID)],
                 ret |-> OK, ub |-> TRUE],
                [book |-> book, ret |-> Aborted, ub |-> TRUE]}
          ELSE LET levels == Levels(book, loc.side)
                   orderList == EraseAt(levels[loc.price], loc.pos)
                   erased ==
                     [WithLevels(book, loc.side,
                                 [levels EXCEPT ![loc.price] = orderList])
                        EXCEPT !.orderMap =
                          EraseOrderIters(@, loc.side, loc.price, loc.pos)]
               IN {IF c.abort
                   THEN [book |-> c.book, ret |-> Aborted, ub |-> c.ub]
                   ELSE [book |-> [c.book EXCEPT
                                    !.orderMap = MapErase(@, order.orderID)],
                         ret |-> OK, ub |-> c.ub] :
                     c \in CancelLevelOutcomes(erased, loc, order.side)}

(* A price change that overwrites the stored record where it rests. *)
OverwriteInPlace(book, order) ==
  LET loc == book.orderMap[order.orderID]
  IN {[book |-> WithLevels(book, loc.side,
                  [Levels(book, loc.side) EXCEPT
                     ![loc.price][loc.pos] = order]),
       ret |-> OK, ub |-> FALSE]}

(* The price-changing branch of modify: cancel(order); insert(order). *)
CancelThenInsert(book, order) ==
  {IF c.ret = Aborted THEN c
   ELSE LET i == InsertOrder(c.book, order)
        IN [book |-> i.book, ret |-> i.ret, ub |-> c.ub] :
     c \in CancelOrder(book, order)}

(* The test of modify on the identifying fields, ignoring the symbol. *)
DiffersInIDOrSide(orderToModify, order) ==
  \/ orderToModify.orderID # order.orderID
  \/ orderToModify.side # order.side

(* orderToModify.orderID != order.orderID || orderToModify.side !=         *)
(* order.side || orderToModify.symbol != order.symbol                      *)
IsDifferentOrder(orderToModify, order) ==
  \/ orderToModify.orderID # order.orderID
  \/ orderToModify.side # order.side
  \/ orderToModify.symbol # order.symbol

(* A quantity update that takes the order out of its place and queues it   *)
(* again at the back of its level.                                         *)
RequeueWithQuantity(book, loc, quantity) ==
  LET orderList == Levels(book, loc.side)[loc.price]
      requeued == Append(EraseAt(orderList, loc.pos),
                         [orderList[loc.pos] EXCEPT !.quantity = quantity])
  IN WithLevels(book, loc.side,
                [Levels(book, loc.side) EXCEPT ![loc.price] = requeued])

(* orderToModify.quantity = order.quantity *)
UpdateQuantity(book, loc, quantity) ==
  WithLevels(book, loc.side,
             [Levels(book, loc.side) EXCEPT
                ![loc.price][loc.pos].quantity = quantity])

(* void OrderBook::modify(const Order &order): the set of outcomes. *)
ModifyOrder(book, order) ==
  IF order.orderID \notin DOMAIN book.orderMap
  THEN {[book |-> book, ret |-> ErrModifyNotFound, ub |-> FALSE]}
  ELSE LET loc == book.orderMap[order.orderID]
       IN IF ~ValidLoc(book, loc)
          THEN \* read through a dangling iterator: undefined behaviour
               {[book |-> book, ret |-> ErrMismatch, ub |-> TRUE],
                [book |-> book, ret |-> Aborted, ub |-> TRUE]}
          ELSE LET orderToModify == Levels(book, loc.side)[loc.price][loc.pos]
               IN IF IsDifferentOrder(orderToModify, order)
                  THEN {[book |-> book, ret |-> ErrMismatch, ub |-> FALSE]}
                  ELSE IF orderToModify.price # order.price
                  THEN CancelThenInsert(book, order)
                  ELSE {[book |-> UpdateQuantity(book, loc, order.quantity),
                         ret |-> OK, ub |-> FALSE]}

RECURSIVE SumQuantity(_)
(* The sum of the quantity fields of a sequence of records. *)
SumQuantity(seq) ==
  IF seq = <<>> THEN 0
  ELSE seq[1].quantity + SumQuantity(Tail(seq))

RECURSIVE TotalQuantity(_)
(* The sum of the quantities of the orders of all levels of one side. *)
TotalQuantity(levels) ==
  IF DOMAIN levels = {} THEN 0
  ELSE LET p == Min(DOMAIN levels)
       IN SumQuantity(levels[p]) + TotalQuantity(EraseLevel(levels, p))

NoEntry == [bid |-> 0, ask |-> 0]

NotMain == [step |-> 0, cancelled |-> 0, quantity |-> 0]

(* No call of match(order&) has been made. *)
NoOrder == [id |-> 0, quantity |-> 0, price |-> 0, symbol |-> "", side |-> 0]

(***************************************************************************)
(* The calls, as actions.  A call runs while no match() is in progress     *)
(* (the class has no lock; one thread drives it).                          *)
(***************************************************************************)
Ends(r) ==
  /\ bids' = r.book.bids
  /\ asks' = r.book.asks
  /\ orderMap' = r.book.orderMap
  /\ ret' = r.ret
  /\ ub' = r.ub
  /\ trades' = <<>>
  /\ pc' = IF r.ret = Aborted THEN "aborted" ELSE "idle"
  /\ entry' = NoEntry
  /\ incoming' = NoOrder
  /\ UNCHANGED <<others, prog, bidOrderIter, askOrderIter>>

(* A call made by a caller other than main. *)
Returns(r) == Ends(r) /\ UNCHANGED main

Insert(order) ==
  /\ prog = "list"
  /\ pc = "idle"
  /\ LET i == InsertOrder(Book, order)
     IN Returns([book |-> i.book, ret |-> i.ret, ub |-> FALSE])

Cancel(order) ==
  /\ prog = "list"
  /\ pc = "idle"
  /\ \E r \in CancelOrder(Book, order) : Returns(r)

Modify(order) ==
  /\ prog = "list"
  /\ pc = "idle"
  /\ \E r \in ModifyOrder(Book, order) : Returns(r)

(***************************************************************************)
(* void OrderBook::match(), one action per loop iteration.                 *)
(***************************************************************************)
(* The record with the bid's price in the place of bestAskPrice. *)
TradeAtBidPrice(bidOrder, askOrder, bestAskPrice, quantity) ==
  [bidID |-> bidOrder.orderID, askID |-> askOrder.orderID,
   symbol |-> askOrder.symbol, price |-> bidOrder.price,
   quantity |-> quantity,
   bidPrice |-> bidOrder.price, askPrice |-> askOrder.price]

(* The record match() prints for a trade; bidPrice and askPrice are the    *)
(* price fields of the two orders, kept beside what is printed.            *)
Trade(bidOrder, askOrder, bestAskPrice, quantity) ==
  [bidID |-> bidOrder.orderID, askID |-> askOrder.orderID,
   symbol |-> askOrder.symbol, price |-> bestAskPrice,
   quantity |-> quantity,
   bidPrice |-> bidOrder.price, askPrice |-> askOrder.price]

(* std::max in the place of std::min. *)
StdMax(a, b) == IF a < b THEN b ELSE a

(* std::min *)
StdMin(a, b) == IF b < a THEN b ELSE a

(* A cleanupAndIterate without orderMap.erase(orderIter->orderID). *)
CleanupKeepsKey(book, side, price, iter) ==
  LET orderList == Levels(book, side)[price]
  IN IF orderList[iter].quantity = 0
     THEN [book |->
             [WithLevels(book, side,
                [Levels(book, side) EXCEPT ![price] = EraseAt(@, iter)])
                EXCEPT !.orderMap = EraseOrderIters(@, side, price, iter)],
           iter |-> iter]
     ELSE [book |-> book, iter |-> iter + 1]

(* cleanupAndIterate(orderIter, orderList) for the list of level           *)
(* (side, price): [book, iter] after it.                                   *)
CleanupAndIterate(book, side, price, iter) ==
  LET orderList == Levels(book, side)[price]
  IN IF orderList[iter].quantity = 0
     THEN [book |->
             [WithLevels(book, side,
                [Levels(book, side) EXCEPT ![price] = EraseAt(@, iter)])
                EXCEPT !.orderMap =
                  MapErase(EraseOrderIters(@, side, price, iter),
                           orderList[iter].orderID)],
           iter |-> iter]
     ELSE [book |-> book, iter |-> iter + 1]

(* The call: control enters the outer while. *)
MatchCalled ==
  /\ prog = "list"
  /\ pc = "idle"
  /\ pc' = "outer"
  /\ trades' = <<>>
  /\ ret' = OK
  /\ ub' = FALSE
  /\ entry' = [bid |-> TotalQuantity(bids), ask |-> TotalQuantity(asks)]
  /\ UNCHANGED <<others, prog, bids, asks, orderMap, bidOrderIter,
                 askOrderIter, incoming>>

Match == MatchCalled /\ UNCHANGED main

(* The outer loop without the break of lines 464-465. *)
CrossedAtAnyPrice(b, a) ==
  /\ DOMAIN b # {}
  /\ DOMAIN a # {}

(* The outer loop breaking on bestBidPrice <= bestAskPrice. *)
CrossedStrictly(b, a) ==
  /\ DOMAIN b # {}
  /\ DOMAIN a # {}
  /\ ~(BestBid(b) <= BestAsk(a))

(* The tests of the outer loop (lines 442 and 464): both maps non-empty    *)
(* and not bestBidPrice < bestAskPrice.                                    *)
Crossed(b, a) ==
  /\ DOMAIN b # {}
  /\ DOMAIN a # {}
  /\ ~(BestBid(b) < BestAsk(a))

(* while (!bids.empty() && !asks.empty()) { ... if (bestBidPrice <         *)
(* bestAskPrice) break; bidOrderIter = begin; askOrderIter = begin;        *)
MatchOuter ==
  /\ prog = "list"
  /\ pc = "outer"
  /\ IF Crossed(bids, asks)
     THEN /\ pc' = "inner"
          /\ bidOrderIter' = 1
          /\ askOrderIter' = 1
     ELSE /\ pc' = "idle"
          /\ UNCHANGED <<bidOrderIter, askOrderIter>>
  /\ UNCHANGED <<others, prog, bids, asks, orderMap, trades, ret, ub, entry,
                 main, incoming>>

(* bidOrderIter != bestBidOrders.end() && askOrderIter != ...end() *)
InnerCondition ==
  /\ bidOrderIter <= Len(bids[BestBid(bids)])
  /\ askOrderIter <= Len(asks[BestAsk(asks)])

(* One iteration of the inner while (lines 478-544). *)
MatchInner ==
  /\ prog = "list"
  /\ pc = "inner"
  /\ InnerCondition
  /\ LET bestBidPrice == BestBid(bids)
         bestAskPrice == BestAsk(asks)
         bidOrder == bids[bestBidPrice][bidOrderIter]
         askOrder == asks[bestAskPrice][askOrderIter]
         maxQuantityMatched == StdMin(bidOrder.quantity, askOrder.quantity)
         filled ==
           [Book EXCEPT
              !.bids[bestBidPrice][bidOrderIter].quantity =
                 @ - maxQuantityMatched,
              !.asks[bestAskPrice][askOrderIter].quantity =
                 @ - maxQuantityMatched]
         afterBid == CleanupAndIterate(filled, Buy, bestBidPrice,
                                       bidOrderIter)
         afterAsk == CleanupAndIterate(afterBid.book, Sell, bestAskPrice,
                                       askOrderIter)
     IN /\ trades' = Append(trades, Trade(bidOrder, askOrder, bestAskPrice,
                                          maxQuantityMatched))
        /\ bids' = afterAsk.book.bids
        /\ asks' = afterAsk.book.asks
        /\ orderMap' = afterAsk.book.orderMap
        /\ bidOrderIter' = afterBid.iter
        /\ askOrderIter' = afterAsk.iter
  /\ UNCHANGED <<others, prog, pc, ret, ub, entry, main, incoming>>

(* The end of the outer iteration without lines 552-555. *)
KeepIfEmpty(book, side, price) == book

(* if (bidsIter->second.empty()) bids.erase(bidsIter); same for asks. *)
EraseIfEmpty(book, side, price) ==
  IF Levels(book, side)[price] = <<>>
  THEN [WithLevels(book, side, EraseLevel(Levels(book, side), price))
          EXCEPT !.orderMap = EraseLevelIters(@, side, price)]
  ELSE book

(* The inner while ends; empty best levels are erased (lines 552-556). *)
MatchLevels ==
  /\ prog = "list"
  /\ pc = "inner"
  /\ ~InnerCondition
  /\ LET afterBids == EraseIfEmpty(Book, Buy, BestBid(bids))
         afterAsks == EraseIfEmpty(afterBids, Sell, BestAsk(asks))
     IN /\ bids' = afterAsks.bids
        /\ asks' = afterAsks.asks
        /\ orderMap' = afterAsks.orderMap
  /\ pc' = "outer"
  /\ bidOrderIter' = 0
  /\ askOrderIter' = 0
  /\ UNCHANGED <<others, prog, trades, ret, ub, entry, main, incoming>>

MatchStep == MatchOuter \/ MatchInner \/ MatchLevels

(***************************************************************************)
(* A second thread.  OrderBook has no lock: while one thread is inside     *)
(* match(), another one can call cancel.  The call is taken as one step    *)
(* between two steps of match() (the interleavings of its single loads and *)
(* stores are more, not fewer).                                            *)
(***************************************************************************)
(* What the erase of the order at loc, and of its level if after has lost  *)
(* it, does to the list iterator match() holds into the best level of      *)
(* side: it stays on its node (or at end()), or it dangles (0).            *)
IterAfterCancel(book, after, loc, side, iter) ==
  LET best == IF side = Buy THEN BestBid(book.bids) ELSE BestAsk(book.asks)
  IN IF best \notin DOMAIN Levels(after, side) THEN 0
     ELSE IF loc.side = side /\ loc.price = best
     THEN IF loc.pos = iter THEN 0
          ELSE IF loc.pos < iter THEN iter - 1
          ELSE iter
     ELSE iter

(* cancel(order) called by a second thread while the first is in match(). *)
RacingCancel(order) ==
  /\ prog = "list"
  /\ pc \in {"outer", "inner"}
  /\ \E r \in CancelOrder(Book, order) :
       LET held == pc = "inner" /\ r.ret # ErrCancelNotFound
           loc == orderMap[order.orderID]
           bidIter == IF held
                      THEN IterAfterCancel(Book, r.book, loc, Buy,
                                           bidOrderIter)
                      ELSE bidOrderIter
           askIter == IF held
                      THEN IterAfterCancel(Book, r.book, loc, Sell,
                                           askOrderIter)
                      ELSE askOrderIter
       IN /\ bids' = r.book.bids
          /\ asks' = r.book.asks
          /\ orderMap' = r.book.orderMap
          /\ ret' = r.ret
          /\ ub' = (ub \/ r.ub)
          /\ bidOrderIter' = bidIter
          /\ askOrderIter' = askIter
          /\ pc' = IF r.ret = Aborted THEN "aborted"
                   ELSE IF held /\ (bidIter = 0 \/ askIter = 0) THEN "raced"
                   ELSE pc
  /\ UNCHANGED <<others, prog, trades, entry, main, incoming>>

(* match() goes on with an iterator to an erased node or into a destroyed  *)
(* list: undefined behaviour.  The process is ended, or the loop runs over *)
(* freed memory; nothing is modelled after either.                         *)
RacedMatch ==
  /\ prog = "list"
  /\ pc = "raced"
  /\ \E outcome \in {"aborted", "corrupted"} :
       /\ pc' = outcome
       /\ ret' = IF outcome = "aborted" THEN Aborted ELSE ret
  /\ ub' = TRUE
  /\ UNCHANGED <<others, prog, bids, asks, orderMap, bidOrderIter,
                 askOrderIter, trades, entry, main, incoming>>

(***************************************************************************)
(* The multimap-based orderbook (orderbook_multimap.cpp).  bids and asks   *)
(* are std::multimap<double, order>: sequences of nodes [first, second] in *)
(* ascending key order, equal keys in insertion order.  orderMap maps an   *)
(* id to an iterator: the tree (side) and the index of the node it         *)
(* designates, index 0 when the node was erased (a dangling iterator).     *)
(***************************************************************************)
(* enum class Side { Buy, Sell } *)
MultimapBuy == 0
MultimapSell == 1
MultimapSide == {MultimapBuy, MultimapSell}

(* struct order *)
MultimapOrder == [id : OrderIDs, quantity : Quantities, price : Prices,
                  symbol : Symbols, side : MultimapSide]

ErrMultimapNotFound == "Order not found in the orderbook"
ErrMultimapMismatch ==
  "Invalid order received: not matching the existing order."

(* (ord.side == Side::Buy) ? bids : asks *)
TreeOf(side) == IF side = MultimapBuy THEN MultimapBuy ELSE MultimapSell

Tree(book, tree) == IF tree = MultimapBuy THEN book.bids ELSE book.asks

WithTree(book, tree, nodes) ==
  IF tree = MultimapBuy THEN [book EXCEPT !.bids = nodes]
  ELSE [book EXCEPT !.asks = nodes]

(* std::multimap::insert puts the node at the upper bound of its key. *)
UpperBound(nodes, key) ==
  1 + Cardinality({i \in 1 .. Len(nodes) : nodes[i].first <= key})

InsertAt(nodes, pos, node) ==
  [k \in 1 .. (Len(nodes) + 1) |->
     IF k < pos THEN nodes[k] ELSE IF k = pos THEN node ELSE nodes[k - 1]]

(* Iterators to the nodes after the new one still designate them. *)
InsertNodeIters(om, tree, pos) ==
  [k \in DOMAIN om |->
     IF om[k].side = tree /\ om[k].pos >= pos
     THEN [om[k] EXCEPT !.pos = @ + 1] ELSE om[k]]

(* multimap::erase(iterator): iterators to later nodes still designate    *)
(* them, iterators to the erased node dangle.                              *)
EraseNodeIters(om, tree, pos) ==
  [k \in DOMAIN om |->
     IF om[k].side = tree
     THEN IF om[k].pos > pos THEN [om[k] EXCEPT !.pos = @ - 1]
          ELSE IF om[k].pos = pos THEN [om[k] EXCEPT !.pos = 0]
          ELSE om[k]
     ELSE om[k]]

EraseNode(book, tree, pos) ==
  [WithTree(book, tree, EraseAt(Tree(book, tree), pos))
     EXCEPT !.orderMap = EraseNodeIters(@, tree, pos)]

(* void orderbook::insert(const order& ord) *)
MultimapInsertOrder(book, ord) ==
  IF ord.id \in DOMAIN book.orderMap
  THEN [book |-> book, ret |-> ErrDuplicate, ub |-> FALSE]
  ELSE LET tree == TreeOf(ord.side)
           pos == UpperBound(Tree(book, tree), ord.price)
           node == [first |-> ord.price, second |-> ord]
           linked == [WithTree(book, tree,
                               InsertAt(Tree(book, tree), pos, node))
                        EXCEPT !.orderMap = InsertNodeIters(@, tree, pos)]
       IN [book |-> [linked EXCEPT
                       !.orderMap = MapPut(@, ord.id,
                                           [side |-> tree, pos |-> pos])],
           ret |-> OK, ub |-> FALSE]

(* priceLevels.erase(iter->second) of cancel.  Erasing through a dangling  *)
(* iterator, or from the tree that does not hold the node, is undefined    *)
(* behaviour: the tree code unlinks the node from the tree that holds it   *)
(* if it is still linked (the sizes and headers, which the model does not  *)
(* keep, are then wrong: ub), or a checked build aborts.                   *)
MultimapEraseOutcomes(book, it, named) ==
  IF it.pos = 0
  THEN {[book |-> book, ub |-> TRUE, abort |-> FALSE],
        [book |-> book, ub |-> TRUE, abort |-> TRUE]}
  ELSE IF it.side = named
  THEN {[book |-> EraseNode(book, it.side, it.pos), ub |-> FALSE,
         abort |-> FALSE]}
  ELSE {[book |-> EraseNode(book, it.side, it.pos), ub |-> TRUE,
         abort |-> FALSE],
        [book |-> book, ub |-> TRUE, abort |-> TRUE]}

(* void orderbook::cancel(const order& ord): the set of outcomes. *)
MultimapCancelOrder(book, ord) ==
  IF ord.id \notin DOMAIN book.orderMap
  THEN {[book |-> book, ret |-> ErrMultimapNotFound, ub |-> FALSE]}
  ELSE {IF e.abort THEN [book |-> e.book, ret |-> Aborted, ub |-> e.ub]
        ELSE [book |-> [e.book EXCEPT !.orderMap = MapErase(@, ord.id)],
              ret |-> OK, ub |-> e.ub] :
          e \in MultimapEraseOutcomes(book, book.orderMap[ord.id],
                                      TreeOf(ord.side))}

(* The price-changing branch of modify: cancel(existingOrder);             *)
(* insert(ord); existingOrder.quantity = ord.quantity.  existingOrder is a *)
(* reference into the node cancel erases: cancel's orderMap.erase(ord.id)  *)
(* reads it and the last assignment writes it after the node was freed     *)
(* (ub).  The freed node keeps its bytes or the build aborts; the write    *)
(* lands in freed memory or in the node insert has just allocated there,   *)
(* whose quantity is ord.quantity already.                                 *)
MultimapReinsert(book, existingOrder, ord) ==
  {IF c.ret = Aborted THEN [c EXCEPT !.ub = TRUE]
   ELSE LET i == MultimapInsertOrder(c.book, ord)
        IN [book |-> i.book, ret |-> i.ret, ub |-> TRUE] :
     c \in MultimapCancelOrder(book, existingOrder)}
  \cup {[book |-> EraseNode(book, book.orderMap[ord.id].side,
                            book.orderMap[ord.id].pos),
         ret |-> Aborted, ub |-> TRUE]}

(* void orderbook::modify(const order& ord): the set of outcomes. *)
MultimapModifyOrder(book, ord) ==
  IF ord.id \notin DOMAIN book.orderMap
  THEN {[book |-> book, ret |-> ErrMultimapNotFound, ub |-> FALSE]}
  ELSE LET it == book.orderMap[ord.id]
       IN IF it.pos = 0
          THEN \* existingOrder is read through a dangling iterator
               {[book |-> book, ret |-> ErrMultimapMismatch, ub |-> TRUE],
                [book |-> book, ret |-> Aborted, ub |-> TRUE]}
          ELSE LET existingOrder == Tree(book, it.side)[it.pos].second
               IN IF \/ existingOrder.id # ord.id
                     \/ existingOrder.side # ord.side
                     \/ existingOrder.symbol # ord.symbol
                  THEN {[book |-> book, ret |-> ErrMultimapMismatch,
                         ub |-> FALSE]}
                  ELSE IF existingOrder.price # ord.price
                  THEN MultimapReinsert(book, existingOrder, ord)
                  ELSE {[book |->
                           WithTree(book, it.side,
                             [Tree(book, it.side) EXCEPT
                                ![it.pos].second.quantity = ord.quantity]),
                         ret |-> OK, ub |-> FALSE]}

MultimapInsert(ord) ==
  /\ prog = "multimap"
  /\ pc = "idle"
  /\ Returns(MultimapInsertOrder(Book, ord))

MultimapCancel(ord) ==
  /\ prog = "multimap"
  /\ pc = "idle"
  /\ \E r \in MultimapCancelOrder(Book, ord) : Returns(r)

MultimapModify(ord) ==
  /\ prog = "multimap"
  /\ pc = "idle"
  /\ \E r \in MultimapModifyOrder(Book, ord) : Returns(r)

(* void orderbook::match(): the call; control enters the while. *)
MultimapMatch ==
  /\ prog = "multimap"
  /\ pc = "idle"
  /\ pc' = "loop"
  /\ trades' = <<>>
  /\ ret' = OK
  /\ ub' = FALSE
  /\ incoming' = NoOrder
  /\ UNCHANGED <<others, prog, bids, asks, orderMap, bidOrderIter,
                 askOrderIter, entry, main>>

(* The tests of the loop (lines 73 and 81) on bids.rbegin(), asks.begin(). *)
MultimapCrossed(b, a) ==
  /\ b # <<>>
  /\ a # <<>>
  /\ ~(b[Len(b)].first < a[1].first)

(* The executions of one iteration, kept beside the book (match() prints   *)
(* nothing).                                                               *)
Execution(bidOrder, askOrder, quantity) ==
  [bidID |-> bidOrder.id, askID |-> askOrder.id, quantity |-> quantity,
   bidPrice |-> bidOrder.price, askPrice |-> askOrder.price]

(* One iteration of the while of match() (lines 73-94), or its exit. *)
MultimapMatchLoop ==
  /\ prog = "multimap"
  /\ pc = "loop"
  /\ IF MultimapCrossed(bids, asks)
     THEN LET bidPos == Len(bids)
              bidOrder == bids[bidPos].second
              askOrder == asks[1].second
              matchingQuantity == StdMin(bidOrder.quantity, askOrder.quantity)
              filled ==
                [Book EXCEPT
                   !.bids[bidPos].second.quantity = @ - matchingQuantity,
                   !.asks[1].second.quantity = @ - matchingQuantity]
              afterBid ==
                IF filled.bids[bidPos].second.quantity = 0
                THEN EraseNode(filled, MultimapBuy, bidPos) ELSE filled
              afterAsk ==
                IF filled.asks[1].second.quantity = 0
                THEN EraseNode(afterBid, MultimapSell, 1) ELSE afterBid
          IN /\ bids' = afterAsk.bids
             /\ asks' = afterAsk.asks
             /\ orderMap' = afterAsk.orderMap
             /\ trades' = Append(trades, Execution(bidOrder, askOrder,
                                                   matchingQuantity))
             /\ pc' = "loop"
     ELSE /\ pc' = "idle"
          /\ UNCHANGED <<bids, asks, orderMap, trades>>
  /\ UNCHANGED <<others, prog, bidOrderIter, askOrderIter, ret, ub, entry,
                 main, incoming>>

(***************************************************************************)
(* void orderbook::match(order& ord): the incoming order is executed       *)
(* against the resting orders of the other side.  (The class body of       *)
(* orderbook_multimap.cpp lacks one closing brace after this function; the *)
(* member functions are modelled as they are written.)                     *)
(***************************************************************************)
(* The call: ord is bound to the caller's order, control reaches the test  *)
(* of the while of the branch ord.side selects.                            *)
MultimapMatchOrder(order) ==
  /\ prog = "multimap"
  /\ pc = "idle"
  /\ pc' = "incoming"
  /\ incoming' = order
  /\ trades' = <<>>
  /\ ret' = OK
  /\ ub' = FALSE
  /\ UNCHANGED <<others, prog, bids, asks, orderMap, bidOrderIter,
                 askOrderIter, entry, main>>

(* The tree match(order&) takes resting orders from. *)
OppositeTree(side) == IF side = MultimapBuy THEN MultimapSell ELSE MultimapBuy

(* asks.begin() for a Buy, bids.rbegin() for a Sell: the index of the node, *)
(* 0 at end()/rend().                                                      *)
BestOpposite(book, side) ==
  IF side = MultimapBuy THEN (IF book.asks = <<>> THEN 0 ELSE 1)
  ELSE Len(book.bids)

(* What one execution of match(order&) did: the two orders as bid and ask, *)
(* the quantity, and the resting order with what is left of it.            *)
IncomingExecution(taker, resting, quantity) ==
  LET bidOrder == IF taker.side = MultimapBuy THEN taker ELSE resting
      askOrder == IF taker.side = MultimapBuy THEN resting ELSE taker
  IN [bidID |-> bidOrder.id, askID |-> askOrder.id, quantity |-> quantity,
      bidPrice |-> bidOrder.price, askPrice |-> askOrder.price,
      resting |-> resting.id, left |-> resting.quantity - quantity]

(* void orderbook::cleanup(PriceLevel::iterator orderIter): the node is    *)
(* erased from the tree its order's side field names.                      *)
Cleanup(book, tree, pos) ==
  LET order == Tree(book, tree)[pos].second
  IN IF order.quantity = 0
     THEN MultimapEraseOutcomes(book, [side |-> tree, pos |-> pos],
                                TreeOf(order.side))
     ELSE {[book |-> book, ub |-> FALSE, abort |-> FALSE]}

(* One test of the while of match(order&) and, if it passes, one iteration *)
(* (execute, cleanup); else the return.                                    *)
MultimapMatchOrderLoop ==
  /\ prog = "multimap"
  /\ pc = "incoming"
  /\ LET tree == OppositeTree(incoming.side)
         pos == BestOpposite(Book, incoming.side)
     IN IF incoming.quantity > 0 /\ pos # 0
        THEN LET resting == Tree(Book, tree)[pos].second
                 matchQuantity == StdMin(incoming.quantity, resting.quantity)
                 executed ==
                   WithTree(Book, tree,
                     [Tree(Book, tree) EXCEPT
                        ![pos].second.quantity = @ - matchQuantity])
             IN \E c \in Cleanup(executed, tree, pos) :
                  /\ bids' = c.book.bids
                  /\ asks' = c.book.asks
                  /\ orderMap' = c.book.orderMap
                  /\ incoming' = [incoming EXCEPT
                                    !.quantity = @ - matchQuantity]
                  /\ trades' = Append(trades,
                                      IncomingExecution(incoming, resting,
                                                        matchQuantity))
                  /\ ub' = (ub \/ c.ub)
                  /\ ret' = IF c.abort THEN Aborted ELSE ret
                  /\ pc' = IF c.abort THEN "aborted" ELSE "incoming"
        ELSE /\ pc' = "idle"
             /\ UNCHANGED <<bids, asks, orderMap, incoming, trades, ub,
                            ret>>
  /\ UNCHANGED <<others, prog, bidOrderIter, askOrderIter, entry, main>>

(***************************************************************************)
(* Specifications.                                                         *)
(***************************************************************************)
(* Orders the callers submit: the book is the AAPL book, its orders are    *)
(* inserted as AAPL orders; cancels and modifies may carry any record.     *)
InsertArgs == {o \in Order : o.symbol = "AAPL"}

(* cancel reads orderID and side only. *)
CancelArgs == {o \in Order : o.symbol = "AAPL" /\ o.price = 1
                             /\ o.quantity = 1}

ModifyArgs == Order

InitBook ==
  /\ bids = <<>>
  /\ asks = <<>>
  /\ orderMap = <<>>
  /\ pc = "idle"
  /\ bidOrderIter = 0
  /\ askOrderIter = 0
  /\ trades = <<>>
  /\ ret = OK
  /\ ub = FALSE
  /\ entry = NoEntry
  /\ main = NotMain
  /\ incoming = NoOrder
  /\ NoQueue
  /\ NoLru
  /\ NoDeferredVector

(* The list-based OrderBook. *)
Init == prog = "list" /\ InitBook

Next ==
  \/ \E o \in InsertArgs : Insert(o)
  \/ \E o \in CancelArgs : Cancel(o)
  \/ \E o \in ModifyArgs : Modify(o)
  \/ Match
  \/ MatchStep

Spec == Init /\ [][Next]_vars

(* The list-based OrderBook whose callers pass to cancel and modify the    *)
(* side of the resident order.                                             *)
CarriesOwnSide(order) ==
  order.orderID \in DOMAIN orderMap =>
    order.side = orderMap[order.orderID].side

CancelOwnSide(order) == CarriesOwnSide(order) /\ Cancel(order)

ModifyOwnSide(order) == CarriesOwnSide(order) /\ Modify(order)

OwnSideNext ==
  \/ \E o \in InsertArgs : Insert(o)
  \/ \E o \in CancelArgs : CancelOwnSide(o)
  \/ \E o \in ModifyArgs : ModifyOwnSide(o)
  \/ Match
  \/ MatchStep

OwnSideSpec == Init /\ [][OwnSideNext]_vars

(* The list-based OrderBook with deeper queues: two buyers and two sellers *)
(* of AAPL (odd identifiers buy, even identifiers sell), positive          *)
(* quantities.                                                             *)
MaxDeepOrderID == 4

DeepArgs ==
  {o \in [orderID : 1 .. MaxDeepOrderID, price : Prices, quantity : {1, 2},
          side : Side, symbol : {"AAPL"}] :
     o.side = (IF o.orderID % 2 = 1 THEN Buy ELSE Sell)}

DeepCancelArgs == {o \in DeepArgs : o.price = 1 /\ o.quantity = 1}

DeepNext ==
  \/ \E o \in DeepArgs : Insert(o)
  \/ \E o \in DeepCancelArgs : Cancel(o)
  \/ \E o \in DeepArgs : Modify(o)
  \/ Match
  \/ MatchStep

DeepSpec == Init /\ [][DeepNext]_vars

(* main() of orderbook.cpp: five inserts, a cancel, a modify, match().  The *)
(* order cancelled and the quantity the modify sets are drawn from sets    *)
(* that hold main's own choices (order2 and 80).                           *)
MainOrders ==
  <<[orderID |-> 1, price |-> 101, quantity |-> 100, side |-> Buy,
     symbol |-> "AAPL"],
    [orderID |-> 2, price |-> 100, quantity |-> 50, side |-> Buy,
     symbol |-> "AAPL"],
    [orderID |-> 3, price |-> 99, quantity |-> 70, side |-> Sell,
     symbol |-> "AAPL"],
    [orderID |-> 4, price |-> 102, quantity |-> 30, side |-> Sell,
     symbol |-> "AAPL"],
    [orderID |-> 5, price |-> 101, quantity |-> 20, side |-> Sell,
     symbol |-> "AAPL"]>>

MainCancelled == {2, 4, 5}

MainQuantities == {10, 70, 80, 90, 100}

(* ob.insert(order1) ... ob.insert(order5) *)
MainInsert ==
  /\ prog = "list"
  /\ pc = "idle"
  /\ main.step < Len(MainOrders)
  /\ LET i == InsertOrder(Book, MainOrders[main.step + 1])
     IN Ends([book |-> i.book, ret |-> i.ret, ub |-> FALSE])
  /\ main' = [main EXCEPT !.step = @ + 1]

(* ob.cancel(order2) *)
MainCancel ==
  /\ prog = "list"
  /\ pc = "idle"
  /\ main.step = Len(MainOrders)
  /\ \E id \in MainCancelled :
       /\ \E r \in CancelOrder(Book, MainOrders[id]) : Ends(r)
       /\ main' = [main EXCEPT !.step = @ + 1, !.cancelled = id]

(* modOrder1 = order1; modOrder1.quantity = 80; ob.modify(modOrder1) *)
MainModify ==
  /\ prog = "list"
  /\ pc = "idle"
  /\ main.step = Len(MainOrders) + 1
  /\ \E q \in MainQuantities :
       /\ \E r \in ModifyOrder(Book, [MainOrders[1] EXCEPT !.quantity = q]) :
            Ends(r)
       /\ main' = [main EXCEPT !.step = @ + 1, !.quantity = q]

(* ob.match() *)
MainMatch ==
  /\ main.step = Len(MainOrders) + 2
  /\ MatchCalled
  /\ main' = [main EXCEPT !.step = @ + 1]

MainNext ==
  \/ MainInsert
  \/ MainCancel
  \/ MainModify
  \/ MainMatch
  \/ MatchStep

MainSpec == Init /\ [][MainNext]_vars

(* The list-based OrderBook with a second thread that cancels while the    *)
(* first is inside match().                                                *)
ConcurrentNext ==
  \/ \E o \in InsertArgs : Insert(o)
  \/ \E o \in CancelArgs : Cancel(o)
  \/ \E o \in ModifyArgs : Modify(o)
  \/ Match
  \/ MatchStep
  \/ \E o \in CancelArgs : RacingCancel(o)
  \/ RacedMatch

ConcurrentSpec == Init /\ [][ConcurrentNext]_vars

(* The multimap-based orderbook. *)
MultimapInsertArgs == {o \in MultimapOrder : o.symbol = "AAPL"}

MultimapCancelArgs == {o \in MultimapOrder : o.symbol = "AAPL"
                         /\ o.price = 1 /\ o.quantity = 1}

MultimapModifyArgs == MultimapOrder

MultimapInit == prog = "multimap" /\ InitBook

MultimapNext ==
  \/ \E o \in MultimapInsertArgs : MultimapInsert(o)
  \/ \E o \in MultimapCancelArgs : MultimapCancel(o)
  \/ \E o \in MultimapModifyArgs : MultimapModify(o)
  \/ MultimapMatch
  \/ MultimapMatchLoop

MultimapSpec == MultimapInit /\ [][MultimapNext]_vars

(* The multimap-based orderbook with callers of match(order&). *)
IncomingArgs == {o \in MultimapOrder : o.id = 1 /\ o.symbol = "AAPL"}

IncomingNext ==
  \/ \E o \in MultimapInsertArgs : MultimapInsert(o)
  \/ \E o \in MultimapCancelArgs : MultimapCancel(o)
  \/ \E o \in MultimapModifyArgs : MultimapModify(o)
  \/ MultimapMatch
  \/ MultimapMatchLoop
  \/ \E o \in IncomingArgs : MultimapMatchOrder(o)
  \/ MultimapMatchOrderLoop

IncomingSpec == MultimapInit /\ [][IncomingNext]_vars

(* Calls of match() and match(order&) keep running until they return. *)
IncomingFairSpec ==
  IncomingSpec /\ WF_vars(MultimapMatchLoop) /\ WF_vars(MultimapMatchOrderLoop)

(* Both programs: a behaviour is a run of one of them. *)
BooksSpec == (Init \/ MultimapInit) /\ [][Next \/ MultimapNext]_vars

(* A call of match() keeps running until it returns. *)
BooksFairSpec ==
  BooksSpec /\ WF_vars(MatchStep) /\ WF_vars(MultimapMatchLoop)

(***************************************************************************)
(* Properties.                                                             *)
(***************************************************************************)
(* The places of the book where an order with this identifier rests. *)
Locations(book, id) ==
  UNION {UNION {{[side |-> s, price |-> p, pos |-> i] :
                   i \in {j \in DOMAIN Levels(book, s)[p] :
                            Levels(book, s)[p][j].orderID = id}} :
                  p \in DOMAIN Levels(book, s)} :
           s \in Side}

Resident(book, id) == Locations(book, id) # {}

(* The identifiers of the orders that rest in the book. *)
ResidentIDs(book) ==
  UNION {UNION {{Levels(book, s)[p][j].orderID :
                   j \in DOMAIN Levels(book, s)[p]} :
                  p \in DOMAIN Levels(book, s)} :
           s \in Side}

Completed == prog = "list" /\ pc = "idle"

(* C1: after every completed insert, cancel, modify or match of the list   *)
(* book, an identifier is a key of orderMap if and only if exactly one     *)
(* order with that identifier rests in exactly one price-level queue, and  *)
(* the stored location designates that level and that order.               *)
C1_OrderMapConsistent ==
  Completed =>
    \A id \in DOMAIN orderMap \cup ResidentIDs(Book) :
      /\ id \in DOMAIN orderMap <=> Cardinality(Locations(Book, id)) = 1
      /\ id \in DOMAIN orderMap => Locations(Book, id) = {orderMap[id]}

(* C1: match() has filled and erased an order and left another resident.   *)
C1_Witness ==
  /\ Completed
  /\ trades # <<>>
  /\ orderMap # <<>>
  /\ \E id \in DOMAIN orderMap : Resident(Book, id)

(* C2: every trade of match() pairs the order at the front of the best bid *)
(* queue with the order at the front of the best ask queue, as the queues  *)
(* stand when the trade is made.                                           *)
C2_TradesPairFronts ==
  [][(prog = "list" /\ pc = "inner" /\ Len(trades') = Len(trades) + 1) =>
       /\ trades'[Len(trades')].bidID = bids[BestBid(bids)][1].orderID
       /\ trades'[Len(trades')].askID = asks[BestAsk(asks)][1].orderID]_vars

(* C3: every trade of the list book pairs a bid order and an ask order     *)
(* with bid price >= ask price.                                            *)
C3_TradesCross ==
  prog = "list" =>
    \A i \in 1 .. Len(trades) : trades[i].bidPrice >= trades[i].askPrice

(* C3: a trade of a bid priced above the ask it met. *)
C3_Witness ==
  /\ prog = "list"
  /\ trades # <<>>
  /\ trades[1].bidPrice > trades[1].askPrice

(* C4: when match() of the list book returns, bids is empty, or asks is    *)
(* empty, or the highest bid price is strictly below the lowest ask price. *)
C4_ReturnsUncrossed ==
  [][(prog = "list" /\ pc = "outer" /\ pc' = "idle") =>
       \/ DOMAIN bids' = {}
       \/ DOMAIN asks' = {}
       \/ Max(DOMAIN bids') < Min(DOMAIN asks')]_vars

(* C4: match() has traded and returned with bids left and asks drained. *)
C4_Witness ==
  /\ Completed
  /\ trades # <<>>
  /\ DOMAIN bids # {}
  /\ DOMAIN asks = {}

(* C5: a call of match(), of either book, returns. *)
C5_MatchTerminates == (pc \in {"outer", "inner", "loop"}) ~> (pc = "idle")

(* C5: the multimap match() has returned after an execution. *)
C5_Witness ==
  /\ prog = "multimap"
  /\ pc = "idle"
  /\ trades # <<>>

(* C6: after every completed call of the list book whose cancels and       *)
(* modifies carry the resident order's side, no price level of bids or     *)
(* asks has an empty queue.                                                *)
C6_NoEmptyLevel ==
  Completed =>
    /\ \A p \in DOMAIN bids : bids[p] # <<>>
    /\ \A p \in DOMAIN asks : asks[p] # <<>>

(* C6: match() has emptied and removed the levels of both sides. *)
C6_Witness ==
  /\ Completed
  /\ trades # <<>>
  /\ DOMAIN bids = {}
  /\ DOMAIN asks = {}
  /\ orderMap = <<>>

(* C7: for an order o whose identifier is not resident, insert(o) followed *)
(* by cancel(o) gives back the book the insert started from.               *)
C7_InsertCancelRoundTrip ==
  Completed =>
    \A o \in InsertArgs :
      ~Resident(Book, o.orderID) =>
        LET inserted == InsertOrder(Book, o)
        IN inserted.ret = OK =>
             \A c \in CancelOrder(inserted.book, o) : c.book = Book

(* C8 as amended: insert of an order with side Buy or Sell (any side in    *)
(* the multimap book) whose identifier is resident throws the duplicate    *)
(* error and leaves bids, asks and orderMap as they were.                  *)
C8_DuplicateRejected ==
  /\ Completed =>
       \A o \in Order :
         (o.side \in Side /\ Resident(Book, o.orderID)) =>
           InsertOrder(Book, o) = [book |-> Book, ret |-> ErrDuplicate]
  /\ (prog = "multimap" /\ pc = "idle") =>
       \A o \in MultimapOrder :
         (\E s \in MultimapSide : \E i \in 1 .. Len(Tree(Book, s)) :
            Tree(Book, s)[i].second.id = o.id) =>
           MultimapInsertOrder(Book, o) =
             [book |-> Book, ret |-> ErrDuplicate, ub |-> FALSE]

(* C8: an insert has been rejected as a duplicate. *)
C8_Witness ==
  /\ pc = "idle"
  /\ ret = ErrDuplicate
  /\ orderMap # <<>>

(* C8 as worded: insert of any order whose identifier is resident throws   *)
(* the duplicate error and leaves the book as it was.                      *)
C8_AnyDuplicateRejected ==
  Completed =>
    \A o \in Order :
      Resident(Book, o.orderID) =>
        InsertOrder(Book, o) = [book |-> Book, ret |-> ErrDuplicate]

(* C9: modify of a resident identifier with a side or a symbol that        *)
(* differs from the resident order's throws the mismatch error and leaves  *)
(* the book as it was, at the resident price and at any other price.       *)
C9_MismatchRejected ==
  Completed =>
    \A o \in Order :
      \A loc \in Locations(Book, o.orderID) :
        LET resident == Levels(Book, loc.side)[loc.price][loc.pos]
        IN (resident.side # o.side \/ resident.symbol # o.symbol) =>
             ModifyOrder(Book, o) =
               {[book |-> Book, ret |-> ErrMismatch, ub |-> FALSE]}

(* C9: a modify has been rejected as a mismatch. *)
C9_Witness ==
  /\ Completed
  /\ ret = ErrMismatch
  /\ orderMap # <<>>

(* C10: cancel and modify of an identifier that is not resident throw the  *)
(* not-found error and leave the book as it was.                           *)
C10_NotFoundRejected ==
  Completed =>
    \A o \in Order :
      ~Resident(Book, o.orderID) =>
        /\ CancelOrder(Book, o) =
             {[book |-> Book, ret |-> ErrCancelNotFound, ub |-> FALSE]}
        /\ ModifyOrder(Book, o) =
             {[book |-> Book, ret |-> ErrModifyNotFound, ub |-> FALSE]}

(* C10: a cancel or a modify has been rejected as not found. *)
C10_Witness ==
  /\ Completed
  /\ ret \in {ErrCancelNotFound, ErrModifyNotFound}

(* The order that rests at a location of the book. *)
OrderAt(book, loc) == Levels(book, loc.side)[loc.price][loc.pos]

(* The argument of a modify that leaves the resident order at loc at its   *)
(* price: same side, same symbol, same price.                              *)
KeepsPrice(book, loc, o) ==
  /\ OrderAt(book, loc).side = o.side
  /\ OrderAt(book, loc).symbol = o.symbol
  /\ OrderAt(book, loc).price = o.price

(* after differs from before in the quantity of the order id at most: the  *)
(* same levels, the same queues in the same order, the same orderMap.      *)
OnlyQuantityOf(before, after, id, quantity) ==
  /\ after.orderMap = before.orderMap
  /\ \A s \in Side :
       /\ DOMAIN Levels(after, s) = DOMAIN Levels(before, s)
       /\ \A p \in DOMAIN Levels(before, s) :
            /\ Len(Levels(after, s)[p]) = Len(Levels(before, s)[p])
            /\ \A i \in DOMAIN Levels(before, s)[p] :
                 LET old == Levels(before, s)[p][i]
                     new == Levels(after, s)[p][i]
                 IN IF old.orderID = id
                    THEN new = [orderID |-> old.orderID, price |-> old.price,
                                quantity |-> quantity, side |-> old.side,
                                symbol |-> old.symbol]
                    ELSE new = old

(* C11: modify with the resident order's price unchanged returns normally  *)
(* and updates only that order's quantity: the levels, the order's place   *)
(* in its queue, every other order and orderMap are unchanged.             *)
C11_ModifyInPlace ==
  Completed =>
    \A o \in Order :
      \A loc \in Locations(Book, o.orderID) :
        KeepsPrice(Book, loc, o) =>
          \A r \in ModifyOrder(Book, o) :
            /\ r.ret = OK
            /\ ~r.ub
            /\ OnlyQuantityOf(Book, r.book, o.orderID, o.quantity)

(* C11: an order at the front of a queue of two takes a modify at its own  *)
(* price that changes its quantity.                                        *)
C11_Witness ==
  /\ Completed
  /\ \E o \in Order :
       \E loc \in Locations(Book, o.orderID) :
         /\ loc.pos = 1
         /\ Len(Levels(Book, loc.side)[loc.price]) = 2
         /\ KeepsPrice(Book, loc, o)
         /\ OrderAt(Book, loc).quantity # o.quantity
         /\ \E r \in ModifyOrder(Book, o) : r.ret = OK /\ r.book # Book

(* The argument of a modify that moves the resident order at loc to        *)
(* another price: same side, same symbol, another price.                   *)
ChangesPrice(book, loc, o) ==
  /\ OrderAt(book, loc).side = o.side
  /\ OrderAt(book, loc).symbol = o.symbol
  /\ OrderAt(book, loc).price # o.price

(* The queue of a level, empty when the side has no such level. *)
QueueAt(book, side, price) ==
  IF price \in DOMAIN Levels(book, side) THEN Levels(book, side)[price]
  ELSE <<>>

(* after is before with the order at loc taken out of its queue (the level *)
(* gone if nothing else rested there) and o queued last at o.price on the  *)
(* same side, every identifier of orderMap located where its order rests.  *)
MovedToBack(before, after, loc, o) ==
  LET Others(list) == SelectSeq(list, LAMBDA x : x.orderID # o.orderID)
      other == IF loc.side = Buy THEN Sell ELSE Buy
  IN /\ Levels(after, other) = Levels(before, other)
     /\ QueueAt(after, loc.side, o.price) =
          Append(QueueAt(before, loc.side, o.price), o)
     /\ QueueAt(after, loc.side, loc.price) =
          Others(QueueAt(before, loc.side, loc.price))
     /\ loc.price \in DOMAIN Levels(after, loc.side) <=>
          Len(QueueAt(before, loc.side, loc.price)) > 1
     /\ \A q \in DOMAIN Levels(before, loc.side) \ {loc.price, o.price} :
          QueueAt(after, loc.side, q) = QueueAt(before, loc.side, q)
     /\ DOMAIN Levels(after, loc.side) \subseteq
          DOMAIN Levels(before, loc.side) \cup {o.price}
     /\ DOMAIN after.orderMap = DOMAIN before.orderMap
     /\ \A id \in DOMAIN after.orderMap :
          Locations(after, id) = {after.orderMap[id]}

(* C12: a modify of the list book whose price differs from the resident    *)
(* price returns normally with the book that cancel of the identifier      *)
(* followed by insert of the new order produces: the order is the last of  *)
(* the queue of the new level with the new quantity, the old level is gone *)
(* if it became empty, and orderMap locates every order.                   *)
C12_ModifyIsCancelInsert ==
  Completed =>
    \A o \in Order :
      \A loc \in Locations(Book, o.orderID) :
        ChangesPrice(Book, loc, o) =>
          /\ \A r \in ModifyOrder(Book, o) :
               /\ r.ret = OK
               /\ ~r.ub
               /\ MovedToBack(Book, r.book, loc, o)
          /\ {r.book : r \in ModifyOrder(Book, o)} =
               {InsertOrder(c.book, o).book :
                  c \in CancelOrder(Book, OrderAt(Book, loc))}

(* C12: an order alone in its level takes a modify to the price of a level *)
(* where another order rests: it ends behind that order, its old level is  *)
(* removed.                                                                *)
C12_Witness ==
  /\ Completed
  /\ \E o \in Order :
       \E loc \in Locations(Book, o.orderID) :
         /\ ChangesPrice(Book, loc, o)
         /\ Len(QueueAt(Book, loc.side, loc.price)) = 1
         /\ Len(QueueAt(Book, loc.side, o.price)) = 1
         /\ \E r \in ModifyOrder(Book, o) :
              /\ r.ret = OK
              /\ Len(QueueAt(r.book, loc.side, o.price)) = 2
              /\ QueueAt(r.book, loc.side, o.price)[2] = o
              /\ loc.price \notin DOMAIN Levels(r.book, loc.side)

(* C13: orders are queued in arrival order.  In every step of the list     *)
(* book, two orders that rest in one level before and after the step keep  *)
(* their relative order in its queue, and an order that comes to rest in a *)
(* level is the last of its queue.                                         *)
C13_ArrivalOrderKept ==
  [][prog = "list" =>
       \A s \in Side :
         \A p \in DOMAIN Levels(Book', s) :
           LET old == QueueAt(Book, s, p)
               new == Levels(Book', s)[p]
           IN /\ \A i, j \in DOMAIN old :
                   \A k, l \in DOMAIN new :
                     (/\ i < j
                      /\ new[k].orderID = old[i].orderID
                      /\ new[l].orderID = old[j].orderID) => k < l
              /\ \A k \in DOMAIN new :
                   (\A i \in DOMAIN old : old[i].orderID # new[k].orderID)
                     => k = Len(new)]_vars

(* C13: match() has traded against the first of two bids of one level and  *)
(* left it, partially filled, in front of the bid that arrived after it.   *)
C13_Witness ==
  /\ Completed
  /\ trades # <<>>
  /\ \E p \in DOMAIN bids :
       /\ Len(bids[p]) = 2
       /\ trades[Len(trades)].bidID = bids[p][1].orderID

(* C14: in one call of match() of the list book the quantities of the      *)
(* trades emitted so far sum to no more than the smaller of the total bid  *)
(* quantity and the total ask quantity at entry, and no resting order has  *)
(* a quantity below zero.                                                  *)
C14_TradedWithinEntry ==
  (prog = "list" /\ pc \in {"idle", "outer", "inner"}) =>
    /\ SumQuantity(trades) <= entry.bid
    /\ SumQuantity(trades) <= entry.ask
    /\ \A s \in Side :
         \A p \in DOMAIN Levels(Book, s) :
           \A i \in DOMAIN Levels(Book, s)[p] :
             Levels(Book, s)[p][i].quantity >= 0

(* C14: match() has returned after two trades that took all the quantity   *)
(* of one side while quantity is left on the other.                        *)
C14_Witness ==
  /\ Completed
  /\ Len(trades) = 2
  /\ SumQuantity(trades) = StdMin(entry.bid, entry.ask)
  /\ entry.bid # entry.ask

(* C15: every trade emitted by match() of the list book has a quantity     *)
(* above zero.                                                             *)
C15_TradesPositive ==
  prog = "list" => \A i \in DOMAIN trades : trades[i].quantity > 0

(* main has made all its calls with its own arguments and match() has      *)
(* returned.                                                               *)
MainDone ==
  /\ prog = "list"
  /\ pc = "idle"
  /\ main = [step |-> Len(MainOrders) + 3, cancelled |-> 2, quantity |-> 80]

(* What match() printed for trade i. *)
Printed(i) ==
  <<trades[i].bidID, trades[i].askID, trades[i].price, trades[i].quantity>>

(* C16: the scenario of main emits exactly the trades (bid 1, ask 3, price  *)
(* 99, quantity 70) and (bid 1, ask 5, price 101, quantity 10), in this     *)
(* order, and ends with no bids, asks holding order 5 with quantity 10 at  *)
(* 101 and order 4 with quantity 30 at 102, and orderMap holding exactly   *)
(* the identifiers 4 and 5.                                                *)
C16_MainScenario ==
  MainDone =>
    /\ Len(trades) = 2
    /\ Printed(1) = <<1, 3, 99, 70>>
    /\ Printed(2) = <<1, 5, 101, 10>>
    /\ DOMAIN bids = {}
    /\ DOMAIN asks = {101, 102}
    /\ asks[101] = <<[MainOrders[5] EXCEPT !.quantity = 10]>>
    /\ asks[102] = <<MainOrders[4]>>
    /\ DOMAIN orderMap = {4, 5}

(* C16: main has run to its end with its own arguments. *)
C16_Witness == MainDone /\ ret = OK /\ ~ub

(* The identifiers of the orders that rest in the trees of the multimap    *)
(* book.                                                                   *)
MultimapResidentIDs(book) ==
  {book.bids[i].second.id : i \in DOMAIN book.bids}
    \cup {book.asks[i].second.id : i \in DOMAIN book.asks}

(* C17: when match() or match(order&) of the multimap book returns, every  *)
(* key of orderMap identifies an order that rests in bids or asks, and     *)
(* every order that rests in bids or asks has an orderMap entry.           *)
C17_FilledEntriesDestroyed ==
  [][(prog = "multimap" /\ pc \in {"loop", "incoming"} /\ pc' = "idle") =>
       DOMAIN orderMap' = MultimapResidentIDs(Book')]_vars

(* The resting order price-time priority serves first: of the nodes with   *)
(* the best key (the highest of bids, the lowest of asks) the one inserted *)
(* earliest, which a multimap keeps first among equal keys.                *)
FirstInPriority(nodes, tree) ==
  LET keys == {nodes[i].first : i \in DOMAIN nodes}
      best == IF tree = MultimapBuy THEN Max(keys) ELSE Min(keys)
  IN nodes[Min({i \in DOMAIN nodes : nodes[i].first = best})].second

(* C18: every execution of match() and of match(order&) of the multimap    *)
(* book takes, on each side it takes a resting order from, the order at    *)
(* the best price that was inserted earliest.                              *)
C18_PriceTimePriority ==
  [][(prog = "multimap" /\ Len(trades') = Len(trades) + 1) =>
       LET executed == trades'[Len(trades')]
       IN /\ (pc = "loop" \/ incoming.side = MultimapSell) =>
               executed.bidID = FirstInPriority(bids, MultimapBuy).id
          /\ (pc = "loop" \/ incoming.side = MultimapBuy) =>
               executed.askID = FirstInPriority(asks, MultimapSell).id]_vars

(* C19: with two threads calling the mutating operations of one OrderBook, *)
(* match() never holds, inside its inner loop, an iterator to an order or  *)
(* into a level that another thread has erased: each of its two list       *)
(* iterators designates an order of the best level of its side, or the end *)
(* of that level's list.                                                   *)
C19_NoErasedOrderInUse ==
  (prog = "list" /\ pc \in {"inner", "raced"}) =>
    /\ DOMAIN bids # {}
    /\ DOMAIN asks # {}
    /\ bidOrderIter \in 1 .. (Len(bids[BestBid(bids)]) + 1)
    /\ askOrderIter \in 1 .. (Len(asks[BestAsk(asks)]) + 1)


(* C20: match(order&) of the multimap book returns for every incoming      *)
(* order and book; when it returns, the incoming order's quantity is 0 or  *)
(* the opposite tree is empty; and a resting order it fills completely is  *)
(* removed from the book: its node from its tree and its entry from        *)
(* orderMap.                                                               *)
C20_MatchOrderCompletes ==
  /\ (prog = "multimap" /\ pc = "incoming") ~> (pc = "idle")
  /\ [][(prog = "multimap" /\ pc = "incoming" /\ pc' = "idle") =>
          \/ incoming'.quantity = 0
          \/ Tree(Book', OppositeTree(incoming'.side)) = <<>>]_vars
  /\ [][(prog = "multimap" /\ pc = "incoming"
           /\ Len(trades') = Len(trades) + 1) =>
          LET executed == trades'[Len(trades')]
          IN executed.left = 0 =>
               /\ \A i \in DOMAIN bids' : bids'[i].second.id # executed.resting
               /\ \A i \in DOMAIN asks' : asks'[i].second.id # executed.resting
               /\ executed.resting \notin DOMAIN orderMap']_vars


(* C22: every trade match() of the list book prints carries as its price   *)
(* the lowest price of the ask levels at the moment of the trade, which is *)
(* the price of the ask order it executes, whatever the bid's price is.    *)
C22_TradeAtAskPrice ==
  [][(prog = "list" /\ Len(trades') = Len(trades) + 1) =>
       LET printed == trades'[Len(trades')]
       IN /\ printed.price = Min(DOMAIN asks)
          /\ printed.price = printed.askPrice]_vars

(* C22: a trade of a bid above the ask was printed at the ask's price. *)
C22_Witness ==
  /\ prog = "list"
  /\ \E i \in DOMAIN trades :
       /\ trades[i].bidPrice > trades[i].askPrice
       /\ trades[i].price = trades[i].askPrice


(* C23: cancel of a resident identifier does the same whatever the other   *)
(* fields of its argument are: the order leaves the queue it rests in, the *)
(* level leaves its side if that queue became empty, and nothing undefined *)
(* is executed.  (A call between two calls that takes an identifier out of *)
(* orderMap is a cancel.)                                                  *)
C23_CancelByIdentifier ==
  [][(prog = "list" /\ pc = "idle" /\ pc' = "idle"
        /\ DOMAIN orderMap' # DOMAIN orderMap
        /\ DOMAIN orderMap' \subseteq DOMAIN orderMap) =>
       \A id \in DOMAIN orderMap \ DOMAIN orderMap' :
         LET loc == orderMap[id]
             queue == Levels(Book, loc.side)[loc.price]
         IN ValidLoc(Book, loc) =>
              /\ ~ub'
              /\ IF Len(queue) = 1
                 THEN loc.price \notin DOMAIN Levels(Book', loc.side)
                 ELSE Levels(Book', loc.side)[loc.price] =
                        EraseAt(queue, loc.pos)]_vars


(* The nodes of the trees of the multimap book that hold an order with     *)
(* identifier id, as <<tree, position>> pairs.                             *)
NodesOf(book, id) ==
  {<<MultimapBuy, i>> : i \in {j \in DOMAIN book.bids :
                                 book.bids[j].second.id = id}}
    \cup {<<MultimapSell, i>> : i \in {j \in DOMAIN book.asks :
                                         book.asks[j].second.id = id}}

(* C24: a modify of the multimap book that changes the price of a resident *)
(* order (the call after which the identifier's node has another key)      *)
(* executes nothing undefined, no access to the erased record, and ends    *)
(* with exactly one resident order of that identifier.                     *)
C24_ModifyUsesLiveRecords ==
  [][(prog = "multimap" /\ pc = "idle") =>
       \A id \in DOMAIN orderMap \cap DOMAIN orderMap' :
         LET old == orderMap[id]
             new == orderMap'[id]
         IN (/\ old.pos # 0
             /\ new.pos # 0
             /\ Tree(Book, old.side)[old.pos].first #
                  Tree(Book', new.side)[new.pos].first) =>
              /\ ~ub'
              /\ Cardinality(NodesOf(Book', id)) = 1]_vars


(* C25: every execution of match(order&) of the multimap book pairs the    *)
(* incoming order with a resting order whose price crosses its own: the    *)
(* bid's price is not below the ask's price.                               *)
C25_IncomingCrosses ==
  (prog = "multimap" /\ incoming # NoOrder) =>
    \A i \in DOMAIN trades : trades[i].bidPrice >= trades[i].askPrice


(* The list-based OrderBook whose callers insert orders of any symbol:     *)
(* insert does not read the symbol.                                        *)
AnySymbolNext ==
  \/ \E o \in Order : Insert(o)
  \/ \E o \in CancelArgs : CancelOwnSide(o)
  \/ \E o \in ModifyArgs : ModifyOwnSide(o)
  \/ Match
  \/ MatchStep

AnySymbolSpec == Init /\ [][AnySymbolNext]_vars

(* C26: all the orders that rest in one OrderBook carry the same symbol,   *)
(* so that the two orders of every trade do.                               *)
C26_OneSymbol ==
  prog = "list" =>
    \A side1, side2 \in Side :
      \A p1 \in DOMAIN Levels(Book, side1), p2 \in DOMAIN Levels(Book, side2) :
        \A i \in DOMAIN Levels(Book, side1)[p1],
           j \in DOMAIN Levels(Book, side2)[p2] :
          Levels(Book, side1)[p1][i].symbol = Levels(Book, side2)[p2][j].symbol


(***************************************************************************)
(* LockFreeQueue<T, Size> (lockfree/queue.cpp), one action per load or     *)
(* store of head, tail or a buffer slot.  The loads and stores of head and *)
(* tail are atomic; a store-release of an index is seen by the other       *)
(* thread's load-acquire together with the buffer access before it, and a  *)
(* thread's relaxed load reads the index only that thread stores, so every *)
(* execution is an interleaving of these steps.                            *)
(***************************************************************************)
(* main's LockFreeQueue<int, 10> and the bound of its two for loops. *)
MainSize == 10
MainCount == 10

(* Bounds of the model: the template arguments main is run with, the       *)
(* template arguments of the queue of the two threads, and the number of   *)
(* items the producer thread enqueues.                                     *)
MainSizes == 2 .. (MainSize + 1)
QueueSizes == 2 .. 4
MaxItems == 6

(* The value of a buffer slot nothing was stored in (the array is          *)
(* default-initialized).                                                   *)
Indeterminate == -1

(* A test of line 13 that never finds the queue full. *)
NeverFull(next_tail, current_head) == FALSE

(* next_tail == head.load(std::memory_order_acquire) *)
IsFull(next_tail, current_head) == next_tail = current_head

(* size_t increment(size_t index) const *)
Increment(index) == (index + 1) % Size

(* Everything but the queue. *)
notQueue == <<prog, pc, ret, ub, bookVars, lruVars, deferredVars>>

(* The caller's loop: the first call of enqueue with item i, or a call     *)
(* again after a return of false.  Line 10: the load of tail; line 11.     *)
EnqueueLoadTail ==
  /\ prog \in {"queue main", "queue"}
  /\ producer.pc = "call"
  /\ producer' = [producer EXCEPT !.pc = "load head",
                                  !.current_tail = tail,
                                  !.next_tail = Increment(tail)]
  /\ UNCHANGED <<Size, buffer, head, tail, consumer, enqueued, dequeued,
                 unread, notQueue>>

(* Line 13: the load of head; return false if the queue is full. *)
EnqueueLoadHead ==
  /\ prog \in {"queue main", "queue"}
  /\ producer.pc = "load head"
  /\ producer' = [producer EXCEPT
                    !.pc = IF IsFull(producer.next_tail, head)
                           THEN "call" ELSE "store item"]
  /\ UNCHANGED <<Size, buffer, head, tail, consumer, enqueued, dequeued,
                 unread, notQueue>>

(* Line 17: buffer[current_tail] = item. *)
EnqueueStoreItem ==
  /\ prog \in {"queue main", "queue"}
  /\ producer.pc = "store item"
  /\ buffer' = [buffer EXCEPT ![producer.current_tail] = producer.i]
  /\ unread' = unread \cup {producer.current_tail}
  /\ producer' = [producer EXCEPT !.pc = "store tail"]
  /\ UNCHANGED <<Size, head, tail, consumer, enqueued, dequeued, notQueue>>

(* Lines 18-19: the store of tail and return true; the caller goes on to   *)
(* its next item (line 52 in main) or leaves its loop.                     *)
EnqueueStoreTail ==
  /\ prog \in {"queue main", "queue"}
  /\ producer.pc = "store tail"
  /\ tail' = producer.next_tail
  /\ enqueued' = Append(enqueued, producer.i)
  /\ producer' = [producer EXCEPT
                    !.i = @ + 1,
                    !.pc = IF producer.i + 1 = producer.count
                           THEN "done" ELSE "call"]
  /\ UNCHANGED <<Size, buffer, head, consumer, dequeued, unread, notQueue>>

(* The caller's loop: a call of dequeue.  In main the consumer loop comes  *)
(* after the producer loop.  Line 23: the load of head.                    *)
DequeueLoadHead ==
  /\ prog \in {"queue main", "queue"}
  /\ prog = "queue main" => producer.pc = "done"
  /\ consumer.pc = "call"
  /\ consumer' = [consumer EXCEPT !.pc = "load tail",
                                  !.current_head = head]
  /\ UNCHANGED <<Size, buffer, head, tail, producer, enqueued, dequeued,
                 unread, notQueue>>

(* Line 25: the load of tail; return false if the queue is empty. *)
DequeueLoadTail ==
  /\ prog \in {"queue main", "queue"}
  /\ consumer.pc = "load tail"
  /\ consumer' = [consumer EXCEPT
                    !.pc = IF consumer.current_head = tail
                           THEN "call" ELSE "load item"]
  /\ UNCHANGED <<Size, buffer, head, tail, producer, enqueued, dequeued,
                 unread, notQueue>>

(* Line 29: item = buffer[current_head]. *)
DequeueLoadItem ==
  /\ prog \in {"queue main", "queue"}
  /\ consumer.pc = "load item"
  /\ consumer' = [consumer EXCEPT !.pc = "store head",
                                  !.value = buffer[consumer.current_head]]
  /\ unread' = unread \ {consumer.current_head}
  /\ UNCHANGED <<Size, buffer, head, tail, producer, enqueued, dequeued,
                 notQueue>>

(* Lines 30-31: the store of head and return true; the caller goes on to   *)
(* its next call (line 61 in main) or leaves its loop.                     *)
DequeueStoreHead ==
  /\ prog \in {"queue main", "queue"}
  /\ consumer.pc = "store head"
  /\ head' = Increment(consumer.current_head)
  /\ dequeued' = Append(dequeued, consumer.value)
  /\ consumer' = [consumer EXCEPT
                    !.i = @ + 1,
                    !.pc = IF consumer.i + 1 = consumer.count
                           THEN "done" ELSE "call"]
  /\ UNCHANGED <<Size, buffer, tail, producer, enqueued, unread, notQueue>>

(* LockFreeQueue() : head(0), tail(0), and the two callers before their    *)
(* first call, each with count items to pass.                              *)
InitQueue(count) ==
  /\ buffer = [index \in 0 .. (Size - 1) |-> Indeterminate]
  /\ head = 0
  /\ tail = 0
  /\ producer = [pc |-> "call", i |-> 0, count |-> count,
                 current_tail |-> 0, next_tail |-> 0]
  /\ consumer = [pc |-> "call", i |-> 0, count |-> count,
                 current_head |-> 0, value |-> Indeterminate]
  /\ enqueued = <<>>
  /\ dequeued = <<>>
  /\ unread = {}
  /\ pc = "idle"
  /\ ret = OK
  /\ ub = FALSE
  /\ bids = <<>>
  /\ asks = <<>>
  /\ orderMap = <<>>
  /\ bidOrderIter = 0
  /\ askOrderIter = 0
  /\ trades = <<>>
  /\ entry = NoEntry
  /\ main = NotMain
  /\ incoming = NoOrder
  /\ NoLru
  /\ NoDeferredVector

QueueNext ==
  \/ EnqueueLoadTail
  \/ EnqueueLoadHead
  \/ EnqueueStoreItem
  \/ EnqueueStoreTail
  \/ DequeueLoadHead
  \/ DequeueLoadTail
  \/ DequeueLoadItem
  \/ DequeueStoreHead

(* main of queue.cpp. *)
QueueMainInit ==
  /\ prog = "queue main"
  /\ Size \in MainSizes
  /\ InitQueue(MainCount)

QueueMainSpec == QueueMainInit /\ [][QueueNext]_vars

(* main goes on as long as it has not returned. *)
QueueMainFairSpec == QueueMainSpec /\ WF_vars(QueueNext)

(* One producer thread and one consumer thread. *)
QueueInit ==
  /\ prog = "queue"
  /\ Size \in QueueSizes
  /\ InitQueue(MaxItems)

QueueSpec == QueueInit /\ [][QueueNext]_vars

(* C21: main of queue.cpp, with its LockFreeQueue<int, 10>, comes to its   *)
(* end: the ten enqueue loops succeed, the ten dequeue loops return 0..9   *)
(* in that order.                                                          *)
C21_MainCompletes ==
  (prog = "queue main" /\ Size = MainSize) ~>
    (/\ producer.pc = "done"
     /\ consumer.pc = "done"
     /\ dequeued = [k \in 1 .. MainCount |-> k - 1])

(* C27: with one producer and one consumer thread, the items the           *)
(* successful dequeues returned are a prefix of the items the successful   *)
(* enqueues accepted, in every interleaving of the loads and stores; no    *)
(* slot is stored into while it holds an item the consumer has not read,   *)
(* and no slot is read while it is being stored into.                      *)
C27_PrefixOfEnqueued ==
  prog = "queue" =>
    /\ Len(dequeued) <= Len(enqueued)
    /\ \A k \in DOMAIN dequeued : dequeued[k] = enqueued[k]
    /\ producer.pc = "store item" => producer.current_tail \notin unread
    /\ (producer.pc = "store item" /\ consumer.pc = "load item") =>
         producer.current_tail # consumer.current_head

(* C27: the queue was full and was empty again, the buffer has wrapped     *)
(* around, and all the items have passed.                                  *)
C27_Witness ==
  /\ prog = "queue"
  /\ Len(dequeued) = MaxItems
  /\ MaxItems > Size


(***************************************************************************)
(* The lru cache (lru.cpp).  ret is here the call made last and, for get,  *)
(* what it returned.                                                       *)
(***************************************************************************)
(* Bound of the model: the identifiers are 1 .. MaxCachedID. *)
MaxCachedID == 3

(* The capacities the constructor is called with. *)
Capacities == 0 .. 2

(* struct order of lru.cpp *)
CachedOrder == [id : 1 .. MaxCachedID, price : 1 .. 2, quantity : 1 .. 2]

(* No order: before the first put, and behind the nullptr get returns. *)
NoCachedOrder == [id |-> 0, price |-> 0, quantity |-> 0]

notLru == <<prog, bookVars, queueVars, deferredVars>>

(* orders.splice(orders.begin(), orders, orderIter): the node moves to the *)
(* front, the nodes that were before it move one place back; every         *)
(* iterator stays on its node.                                             *)
MoveToFront(list, map, pos) ==
  [list |-> <<list[pos]>> \o SubSeq(list, 1, pos - 1)
              \o SubSeq(list, pos + 1, Len(list)),
   map |-> [id \in DOMAIN map |->
              IF map[id] = pos THEN 1
              ELSE IF map[id] < pos THEN map[id] + 1
              ELSE map[id]]]

(* void lru::put(const order& ord).  With nothing cached and capacity 0,   *)
(* cache.size() == capacity holds and orders.back(), orders.pop_back() are *)
(* called on an empty list: undefined behaviour, after which the process   *)
(* is ended or goes on with a corrupted list; nothing is modelled after    *)
(* either.                                                                 *)
Put(ord) ==
  /\ prog = "lru"
  /\ pc = "idle"
  /\ lastPut' = ord
  /\ ret' = [call |-> "put", orderID |-> ord.id, found |-> FALSE,
             order |-> NoCachedOrder]
  /\ IF ord.id \in DOMAIN cache
     THEN LET moved == MoveToFront(orders, cache, cache[ord.id])
          IN /\ orders' = moved.list
             /\ cache' = moved.map
             /\ UNCHANGED <<pc, ub>>
     ELSE IF Cardinality(DOMAIN cache) = capacity /\ orders = <<>>
     THEN /\ pc' \in {"aborted", "corrupted"}
          /\ ub' = TRUE
          /\ UNCHANGED <<orders, cache>>
     ELSE LET full == Cardinality(DOMAIN cache) = capacity
              lruOrder == orders[Len(orders)]
              list == IF full THEN SubSeq(orders, 1, Len(orders) - 1)
                      ELSE orders
              map == IF full THEN MapErase(cache, lruOrder.id) ELSE cache
          IN /\ orders' = <<ord>> \o list
             /\ cache' = [id \in DOMAIN map \cup {ord.id} |->
                            IF id = ord.id THEN 1 ELSE map[id] + 1]
             /\ UNCHANGED <<pc, ub>>
  /\ UNCHANGED <<capacity, notLru>>

(* const order* lru::get(size_t orderID) *)
Get(orderID) ==
  /\ prog = "lru"
  /\ pc = "idle"
  /\ IF orderID \notin DOMAIN cache
     THEN /\ ret' = [call |-> "get", orderID |-> orderID, found |-> FALSE,
                     order |-> NoCachedOrder]
          /\ UNCHANGED <<orders, cache>>
     ELSE LET moved == MoveToFront(orders, cache, cache[orderID])
          IN /\ orders' = moved.list
             /\ cache' = moved.map
             /\ ret' = [call |-> "get", orderID |-> orderID, found |-> TRUE,
                        order |-> moved.list[moved.map[orderID]]]
  /\ UNCHANGED <<capacity, lastPut, pc, ub, notLru>>

(* lru(size_t maxSize) *)
LruInit ==
  /\ prog = "lru"
  /\ capacity \in Capacities
  /\ orders = <<>>
  /\ cache = <<>>
  /\ lastPut = NoCachedOrder
  /\ ret = [call |-> "lru", orderID |-> 0, found |-> FALSE,
            order |-> NoCachedOrder]
  /\ pc = "idle"
  /\ ub = FALSE
  /\ bids = <<>>
  /\ asks = <<>>
  /\ orderMap = <<>>
  /\ bidOrderIter = 0
  /\ askOrderIter = 0
  /\ trades = <<>>
  /\ entry = NoEntry
  /\ main = NotMain
  /\ incoming = NoOrder
  /\ NoQueue
  /\ NoDeferredVector

LruNext ==
  \/ \E ord \in CachedOrder : Put(ord)
  \/ \E orderID \in 1 .. MaxCachedID : Get(orderID)

LruSpec == LruInit /\ [][LruNext]_vars

(* C28: for every capacity, after every sequence of put and get, cache and *)
(* orders describe the same identifiers (each entry of cache designates    *)
(* the node of orders with its id, each node has its entry), there are no  *)
(* more entries than capacity, and put has not taken an element from an    *)
(* empty list.                                                             *)
C28_CacheMatchesOrders ==
  prog = "lru" =>
    /\ ~ub
    /\ DOMAIN cache = {orders[i].id : i \in DOMAIN orders}
    /\ \A id \in DOMAIN cache :
         cache[id] \in DOMAIN orders /\ orders[cache[id]].id = id
    /\ Cardinality(DOMAIN cache) = Len(orders)
    /\ Len(orders) <= capacity

(* C29: a get of the identifier of the last put, with no put in between,   *)
(* returns a record equal to the order that put was passed.                *)
C29_GetReturnsLastPut ==
  (prog = "lru" /\ ret.call = "get" /\ ret.orderID = lastPut.id) =>
    ret.found /\ ret.order = lastPut


(***************************************************************************)
(* deferred_vector<T> (deferred_vector.cpp) called by several threads.  A  *)
(* call is two steps: the call, which leaves the thread at the             *)
(* std::unique_lock of its first line, and the body, taken when the mutex  *)
(* is free; the body releases the mutex when it returns.                   *)
(***************************************************************************)
(* Bounds of the model: the threads, the length of the vector, the         *)
(* thresholds the constructor is called with.                              *)
Threads == {1, 2}
MaxSize == 3
Thresholds == 1 .. 2
Values == {1, 2}

(* what() of the std::system_error a lock of an owned mutex may throw. *)
ErrDeadlock == "Resource deadlock avoided"

notDeferred == <<prog, pc, bookVars, queueVars, lruVars>>

Waiting == [pc |-> "idle", index |-> 0, value |-> 0]

(* std::remove_if + erase of the elements whose flag is false. *)
RECURSIVE Compacted(_)
Compacted(elements) ==
  IF elements = <<>> THEN <<>>
  ELSE IF elements[1].first
  THEN <<elements[1]>> \o Compacted(Tail(elements))
  ELSE Compacted(Tail(elements))

(* A thread calls push_back(value). *)
PushBackCall(t, value) ==
  /\ prog = "deferred_vector"
  /\ thread[t].pc = "idle"
  /\ Len(data) < MaxSize
  /\ thread' = [thread EXCEPT ![t] = [pc |-> "push_back", index |-> 0,
                                      value |-> value]]
  /\ UNCHANGED <<data, deletionThreshold, deletedCount, mutex, ret, ub,
                 notDeferred>>

(* void push_back(const T& value): lines 21-23. *)
PushBack(t) ==
  /\ prog = "deferred_vector"
  /\ thread[t].pc = "push_back"
  /\ mutex = 0
  /\ data' = Append(data, [first |-> TRUE, second |-> thread[t].value])
  /\ thread' = [thread EXCEPT ![t] = Waiting]
  /\ ret' = OK
  /\ UNCHANGED <<deletionThreshold, deletedCount, mutex, ub, notDeferred>>

(* A thread calls erase(index). *)
EraseCall(t, index) ==
  /\ prog = "deferred_vector"
  /\ thread[t].pc = "idle"
  /\ thread' = [thread EXCEPT ![t] = [pc |-> "erase", index |-> index,
                                      value |-> 0]]
  /\ UNCHANGED <<data, deletionThreshold, deletedCount, mutex, ret, ub,
                 notDeferred>>

(* void erase(size_t index): lines 31-35.  Below the threshold the call    *)
(* returns; at the threshold it calls compact() with the mutex locked.     *)
Erase(t) ==
  /\ prog = "deferred_vector"
  /\ thread[t].pc = "erase"
  /\ mutex = 0
  /\ LET index == thread[t].index
     IN IF index >= Len(data) \/ ~data[index + 1].first
        THEN /\ thread' = [thread EXCEPT ![t] = Waiting]
             /\ ret' = OK
             /\ UNCHANGED <<data, deletedCount, mutex>>
        ELSE /\ data' = [data EXCEPT ![index + 1].first = FALSE]
             /\ deletedCount' = deletedCount + 1
             /\ IF deletedCount + 1 >= deletionThreshold
                THEN /\ thread' = [thread EXCEPT ![t].pc = "erase compact"]
                     /\ mutex' = t
                     /\ UNCHANGED ret
                ELSE /\ thread' = [thread EXCEPT ![t] = Waiting]
                     /\ ret' = OK
                     /\ UNCHANGED mutex
  /\ UNCHANGED <<deletionThreshold, ub, notDeferred>>

(* compact() called by erase: std::unique_lock lock(mutex) of line 41 by   *)
(* the thread that owns the mutex, which is undefined behaviour.  The lock *)
(* never returns, or it throws std::system_error, which leaves erase       *)
(* through its lock's destructor without line 42-45.                       *)
EraseCompact(t) ==
  /\ prog = "deferred_vector"
  /\ thread[t].pc = "erase compact"
  /\ mutex = t
  /\ \/ /\ thread' = [thread EXCEPT ![t].pc = "blocked"]
        /\ UNCHANGED <<mutex, ret>>
     \/ /\ thread' = [thread EXCEPT ![t] = Waiting]
        /\ mutex' = 0
        /\ ret' = ErrDeadlock
  /\ ub' = TRUE
  /\ UNCHANGED <<data, deletionThreshold, deletedCount, notDeferred>>

(* A thread calls compact() or shrink_to_fit(). *)
CompactCall(t) ==
  /\ prog = "deferred_vector"
  /\ thread[t].pc = "idle"
  /\ thread' = [thread EXCEPT ![t] = [pc |-> "compact", index |-> 0,
                                      value |-> 0]]
  /\ UNCHANGED <<data, deletionThreshold, deletedCount, mutex, ret, ub,
                 notDeferred>>

(* void compact(): lines 41-45. *)
Compact(t) ==
  /\ prog = "deferred_vector"
  /\ thread[t].pc = "compact"
  /\ mutex = 0
  /\ data' = Compacted(data)
  /\ deletedCount' = 0
  /\ thread' = [thread EXCEPT ![t] = Waiting]
  /\ ret' = OK
  /\ UNCHANGED <<deletionThreshold, mutex, ub, notDeferred>>

(* explicit deferred_vector(size_t threshold) *)
DeferredInit ==
  /\ prog = "deferred_vector"
  /\ data = <<>>
  /\ deletionThreshold \in Thresholds
  /\ deletedCount = 0
  /\ mutex = 0
  /\ thread = [t \in Threads |-> Waiting]
  /\ ret = OK
  /\ ub = FALSE
  /\ pc = "idle"
  /\ bids = <<>>
  /\ asks = <<>>
  /\ orderMap = <<>>
  /\ bidOrderIter = 0
  /\ askOrderIter = 0
  /\ trades = <<>>
  /\ entry = NoEntry
  /\ main = NotMain
  /\ incoming = NoOrder
  /\ NoQueue
  /\ NoLru

DeferredNext ==
  \/ \E t \in Threads, value \in Values : PushBackCall(t, value)
  \/ \E t \in Threads : PushBack(t)
  \/ \E t \in Threads, index \in 0 .. MaxSize : EraseCall(t, index)
  \/ \E t \in Threads : Erase(t)
  \/ \E t \in Threads : EraseCompact(t)
  \/ \E t \in Threads : CompactCall(t)
  \/ \E t \in Threads : Compact(t)

DeferredSpec == DeferredInit /\ [][DeferredNext]_vars

(* C30: every call of erase returns: no thread is left inside erase on the *)
(* mutex it owns, no erase ends otherwise than by returning, and once the  *)
(* erase that brought deletedCount up to deletionThreshold has ended the   *)
(* vector is compacted and deletedCount is below the threshold again.      *)
C30_EraseReturns ==
  prog = "deferred_vector" =>
    /\ \A t \in Threads : thread[t].pc # "blocked"
    /\ ret # ErrDeadlock
    /\ (\A t \in Threads : thread[t].pc # "erase compact") =>
         deletedCount < deletionThreshold

=============================================================================
